---------------------------- MODULE Spec2Model ----------------------------
(***************************************************************************)
(* kube-core/src/resource.rs: the Resource trait (type identity,           *)
(* api_version, url_path, meta / meta_mut), its blanket implementation for *)
(* k8s_openapi::Metadata types, and the ResourceExt accessors.             *)
(*                                                                         *)
(* Strings that the code inspects or concatenates (group, version, plural, *)
(* the namespace argument of url_path) are sequences of one-character      *)
(* strings, so that format!, push and push_str are real concatenations.    *)
(* Strings the code only stores and hands back (metadata values) are       *)
(* TLA+ strings.  Option<T> is a sequence of length 0 (None) or 1 (Some).  *)
(***************************************************************************)
EXTENDS Naturals, Sequences, FiniteSets

VARIABLES
    ty,      \* the type whose associated functions are called (K, with its DynamicType value)
    obj,     \* the resource instance: a value embedding an ObjectMeta
    lastOp,  \* the call just made: [op, arg]
    ret      \* what that call returned: [panic, val]

vars == <<ty, obj, lastOp, ret>>

---------------------------------------------------------------------------
(* Bounds *)

\* longest owner_references / finalizers vector the callers build
MaxLen == 2

---------------------------------------------------------------------------
(* Option, call results *)

None == <<>>
Some(x) == <<x>>

Ok(v) == [panic |-> FALSE, val |-> v]
Panic(msg) == [panic |-> TRUE, val |-> msg]
Unit == "()"

\* Option::expect
expect(opt, msg) == IF opt = None THEN Panic(msg) ELSE Ok(opt[1])

---------------------------------------------------------------------------
(* String literals of the source, as character sequences *)

S_api == <<"a", "p", "i">>
S_apis == <<"a", "p", "i", "s">>
S_slash == <<"/">>
S_namespaces_slash == <<"n", "a", "m", "e", "s", "p", "a", "c", "e", "s", "/">>

(* Strings the callers supply *)
S_empty == <<>>
S_apps == <<"a", "p", "p", "s">>
S_namespaces == <<"n", "a", "m", "e", "s", "p", "a", "c", "e", "s">>
S_v1 == <<"v", "1">>
S_v2 == <<"v", "2">>
S_pods == <<"p", "o", "d", "s">>
S_ns == <<"n", "s">>
S_a_b == <<"a", " ", "b">>

Groups == {S_empty, S_apps, S_namespaces}
Versions == {S_v1, S_v2}
Plurals == {S_pods, S_namespaces}
Kinds == {"Pod"}
NamespaceArgs == {None, Some(S_empty), Some(S_ns), Some(S_a_b)}

---------------------------------------------------------------------------
(* Resource: type identity *)

\* A type implementing Resource.  impl = "blanket": K: k8s_openapi::Metadata,
\* DynamicType = (), identity in the constants KIND, GROUP, VERSION,
\* API_VERSION, URL_PATH_SEGMENT.  impl = "dynamic": an implementation that
\* supplies kind, group, version and plural from its DynamicType value and
\* keeps the provided api_version and url_path.
BlanketType(k, g, v, av, p) ==
    [impl |-> "blanket", KIND |-> k, GROUP |-> g, VERSION |-> v,
     API_VERSION |-> av, URL_PATH_SEGMENT |-> p]
DynamicType(k, g, v, p) ==
    [impl |-> "dynamic", kind |-> k, group |-> g, version |-> v, plural |-> p]

kind(dt) == IF dt.impl = "blanket" THEN dt.KIND ELSE dt.kind
group(dt) == IF dt.impl = "blanket" THEN dt.GROUP ELSE dt.group
version(dt) == IF dt.impl = "blanket" THEN dt.VERSION ELSE dt.version
plural(dt) == IF dt.impl = "blanket" THEN dt.URL_PATH_SEGMENT ELSE dt.plural

\* as default_api_version, without the early return for the core group
api_version_always_joined(dt) == (group(dt) \o <<"/">>) \o version(dt)

\* the provided method Resource::api_version
default_api_version(dt) ==
    LET g == group(dt) IN
    IF g = <<>> THEN version(dt)
    ELSE (g \o <<"/">>) \o version(dt)

\* as api_version, the blanket implementation not overriding it
api_version_not_overridden(dt) == default_api_version(dt)

\* api_version as dispatched: the blanket implementation overrides it
api_version(dt) ==
    IF dt.impl = "blanket" THEN dt.API_VERSION ELSE default_api_version(dt)

\* format!("namespaces/{}/", ns)
format_namespaces(ns) == (S_namespaces_slash \o ns) \o S_slash

\* as url_path, the namespace segment placed after the plural
url_path_namespace_last(dt, namespace_arg) ==
    LET n == IF namespace_arg # None THEN format_namespaces(namespace_arg[1]) ELSE <<>>
    IN  S_slash \o (IF group(dt) = <<>> THEN S_api ELSE S_apis) \o S_slash
            \o api_version(dt) \o S_slash \o plural(dt)
            \o (IF n = <<>> THEN <<>> ELSE S_slash \o SubSeq(n, 1, Len(n) - 1))

\* as url_path, an absent namespace formatted like an empty one
url_path_none_as_empty(dt, namespace_arg) ==
    LET n == format_namespaces(IF namespace_arg # None THEN namespace_arg[1] ELSE <<>>)
    IN  S_slash \o (IF group(dt) = <<>> THEN S_api ELSE S_apis) \o S_slash
            \o api_version(dt) \o S_slash \o n \o plural(dt)

\* as url_path, with a slash closing the path
url_path_trailing_slash(dt, namespace_arg) ==
    LET n == IF namespace_arg # None THEN format_namespaces(namespace_arg[1]) ELSE <<>>
    IN  S_slash \o (IF group(dt) = <<>> THEN S_api ELSE S_apis) \o S_slash
            \o api_version(dt) \o S_slash \o n \o plural(dt) \o S_slash

\* the provided method Resource::url_path
url_path(dt, namespace_arg) ==
    LET n == IF namespace_arg # None THEN format_namespaces(namespace_arg[1]) ELSE <<>>
        g == group(dt)
        av == api_version(dt)
        p == plural(dt)
    IN  S_slash \o (IF g = <<>> THEN S_api ELSE S_apis) \o S_slash
            \o av \o S_slash \o n \o p

---------------------------------------------------------------------------
(* ObjectMeta and the resource instance *)

Names == {"web"}
Namespaces == {"default"}
ResourceVersions == {"42"}
Uids == {"u-1"}
LabelKeys == {"k"}
LabelValues == {"v", "w"}
AnnotationKeys == {"note"}
AnnotationValues == {"x"}
Finalizers == {"f1", "f2"}
OwnerReferences ==
    {[kind |-> "ReplicaSet", name |-> "rs", uid |-> "u-2"],
     [kind |-> "Deployment", name |-> "dep", uid |-> "u-3"]}

\* BTreeMap<String, String>: a function on the set of its keys
EmptyMap == [k \in {} |-> ""]
\* BTreeMap::insert
insert(m, k, v) == [x \in (DOMAIN m) \cup {k} |-> IF x = k THEN v ELSE m[x]]
\* BTreeMap::remove
remove(m, k) == [x \in (DOMAIN m) \ {k} |-> m[x]]

\* ObjectMeta::default()
DefaultObjectMeta ==
    [name |-> None, namespace |-> None, resource_version |-> None, uid |-> None,
     labels |-> EmptyMap, annotations |-> EmptyMap,
     owner_references |-> <<>>, finalizers |-> <<>>]

\* A value of a type K: its metadata block beside the rest of the object
Object(m) == [metadata |-> m, spec |-> "payload"]

\* Resource::meta
meta(self) == self.metadata

\* as meta_mut, handing out a clone of the block: the store is lost
meta_mut_clone(self, m) == self

\* Resource::meta_mut: the object after m is stored through the returned
\* &mut ObjectMeta
meta_mut(self, m) == [self EXCEPT !.metadata = m]

---------------------------------------------------------------------------
(* ResourceExt *)

\* as name, with unwrap_or_default in place of expect
name_unwrap_or_default(self) ==
    Ok(IF meta(self).name = None THEN "" ELSE meta(self).name[1])

name(self) == expect(meta(self).name, ".metadata.name missing")

\* as namespace, an absent value defaulted to the empty string
namespace_defaulted(self) ==
    IF meta(self).namespace = None THEN Some("") ELSE meta(self).namespace

namespace(self) == meta(self).namespace

resource_version(self) == meta(self).resource_version

uid(self) == meta(self).uid

labels(self) == meta(self).labels

\* as labels_mut, the store reaching the annotations too
labels_mut_both_maps(self, l) ==
    meta_mut(self, [meta(self) EXCEPT !.labels = l, !.annotations = l])

\* the object after l is stored through the returned &mut BTreeMap
labels_mut(self, l) == meta_mut(self, [meta(self) EXCEPT !.labels = l])

annotations(self) == meta(self).annotations

annotations_mut(self, a) == meta_mut(self, [meta(self) EXCEPT !.annotations = a])

owner_references(self) == meta(self).owner_references

\* the object after o is stored through the returned &mut Vec
owner_references_mut(self, o) ==
    meta_mut(self, [meta(self) EXCEPT !.owner_references = o])

finalizers(self) == meta(self).finalizers

\* as finalizers_mut, an entry already present not stored again
finalizers_mut_dedup(self, f) ==
    LET n == Len(f) IN
    IF n > 0 /\ \E i \in 1..(n - 1) : f[i] = f[n]
    THEN meta_mut(self, [meta(self) EXCEPT !.finalizers = SubSeq(f, 1, n - 1)])
    ELSE meta_mut(self, [meta(self) EXCEPT !.finalizers = f])

finalizers_mut(self, f) == meta_mut(self, [meta(self) EXCEPT !.finalizers = f])

---------------------------------------------------------------------------
(* Calls.  Each action is one call made by the owner of the instance; it  *)
(* records the call in lastOp and its result in ret.                      *)

Call(op, arg) == [op |-> op, arg |-> arg]
NoArg == <<>>

Read(op, result) ==
    /\ lastOp' = Call(op, NoArg)
    /\ ret' = result
    /\ UNCHANGED <<ty, obj>>

Kind == Read("kind", Ok(kind(ty)))
Group == Read("group", Ok(group(ty)))
Version == Read("version", Ok(version(ty)))
Plural == Read("plural", Ok(plural(ty)))
ApiVersion == Read("api_version", Ok(api_version(ty)))

UrlPath ==
    \E ns \in NamespaceArgs :
        /\ lastOp' = Call("url_path", ns)
        /\ ret' = Ok(url_path(ty, ns))
        /\ UNCHANGED <<ty, obj>>

Meta == Read("meta", Ok(meta(obj)))
Name == Read("name", name(obj))
Namespace == Read("namespace", Ok(namespace(obj)))
ResourceVersion == Read("resource_version", Ok(resource_version(obj)))
Uid == Read("uid", Ok(uid(obj)))
Labels == Read("labels", Ok(labels(obj)))
Annotations == Read("annotations", Ok(annotations(obj)))
OwnerRefs == Read("owner_references", Ok(owner_references(obj)))
Finalizer == Read("finalizers", Ok(finalizers(obj)))

Write(op, arg, after) ==
    /\ lastOp' = Call(op, arg)
    /\ ret' = Ok(Unit)
    /\ obj' = after
    /\ UNCHANGED ty

\* *obj.meta_mut() = m
MetaMutAssign ==
    \E n \in {None} \cup {Some(x) : x \in Names} :
        LET m == [DefaultObjectMeta EXCEPT !.name = n] IN
        Write("meta_mut.assign", m, meta_mut(obj, m))

\* obj.labels_mut().insert(k, v)
LabelsMutInsert ==
    \E k \in LabelKeys, v \in LabelValues :
        Write("labels_mut.insert", <<k, v>>, labels_mut(obj, insert(labels(obj), k, v)))

\* obj.labels_mut().remove(k)
LabelsMutRemove ==
    \E k \in LabelKeys :
        Write("labels_mut.remove", k, labels_mut(obj, remove(labels(obj), k)))

\* obj.annotations_mut().insert(k, v)
AnnotationsMutInsert ==
    \E k \in AnnotationKeys, v \in AnnotationValues :
        Write("annotations_mut.insert", <<k, v>>,
              annotations_mut(obj, insert(annotations(obj), k, v)))

\* obj.owner_references_mut().push(o)
OwnerReferencesMutPush ==
    \E o \in OwnerReferences :
        /\ Len(owner_references(obj)) < MaxLen
        /\ Write("owner_references_mut.push", o,
                 owner_references_mut(obj, Append(owner_references(obj), o)))

\* obj.finalizers_mut().push(f)
FinalizersMutPush ==
    \E f \in Finalizers :
        /\ Len(finalizers(obj)) < MaxLen
        /\ Write("finalizers_mut.push", f,
                 finalizers_mut(obj, Append(finalizers(obj), f)))

---------------------------------------------------------------------------
(* Specifications *)

Options(S) == {None} \cup {Some(x) : x \in S}
Some2(S, T) == {<<Some(x), Some(y)>> : x \in S, y \in T}

NoCall == Call("new", NoArg)

\* an instance as the apiserver returns it (resource_version and uid
\* assigned), or as built for a create request (neither assigned, name
\* possibly left to generateName)
InitObjects ==
    {Object([DefaultObjectMeta EXCEPT !.name = n, !.namespace = ns,
                                      !.resource_version = sv[1], !.uid = sv[2]]) :
        n \in Options(Names), ns \in Options(Namespaces),
        sv \in {<<None, None>>} \cup (Some2(ResourceVersions, Uids))}

\* identities of the documented shape: group empty (the core group) or a
\* name, version and plural non-empty names without "/" or whitespace,
\* API_VERSION consistent with GROUP and VERSION
DynamicTypes == {DynamicType(k, g, v, p) : k \in Kinds, g \in Groups, v \in Versions, p \in Plurals}
ConsistentBlanketTypes ==
    {BlanketType(k, g, v, IF g = <<>> THEN v ELSE (g \o <<"/">>) \o v, p) :
        k \in Kinds, g \in Groups, v \in Versions, p \in Plurals}
\* every combination of constants a k8s_openapi::Metadata impl can declare
ApiVersions == {default_api_version(t) : t \in DynamicTypes}
BlanketTypes ==
    {BlanketType(k, g, v, av, p) :
        k \in Kinds, g \in Groups, v \in Versions, av \in ApiVersions, p \in {S_pods}}

PodType == BlanketType("Pod", S_empty, S_v1, S_v1, S_pods)
DeploymentType == DynamicType("Deployment", S_apps, S_v1, <<"d", "s">>)

\* Spec: one instance and every call on it
Init ==
    /\ ty \in {PodType, DeploymentType}
    /\ obj \in InitObjects
    /\ lastOp = NoCall
    /\ ret = Ok(Unit)

Next ==
    \/ Kind \/ Group \/ Version \/ Plural \/ ApiVersion \/ UrlPath
    \/ Meta \/ Name \/ Namespace \/ ResourceVersion \/ Uid
    \/ Labels \/ Annotations \/ OwnerRefs \/ Finalizer
    \/ MetaMutAssign \/ LabelsMutInsert \/ LabelsMutRemove \/ AnnotationsMutInsert
    \/ OwnerReferencesMutPush \/ FinalizersMutPush

Spec == Init /\ [][Next]_vars

\* SpecPath: the associated functions of every well-formed type
InitPath ==
    /\ ty \in DynamicTypes \cup ConsistentBlanketTypes
    /\ obj = Object(DefaultObjectMeta)
    /\ lastOp = NoCall
    /\ ret = Ok(Unit)

NextPath == Kind \/ Group \/ Version \/ Plural \/ ApiVersion \/ UrlPath

SpecPath == InitPath /\ [][NextPath]_vars

\* SpecStatic: the associated functions of every blanket-implemented type
InitStatic ==
    /\ ty \in BlanketTypes
    /\ obj = Object(DefaultObjectMeta)
    /\ lastOp = NoCall
    /\ ret = Ok(Unit)

NextStatic == ApiVersion \/ UrlPath

SpecStatic == InitStatic /\ [][NextStatic]_vars

---------------------------------------------------------------------------
(* Properties *)

StartsWith(s, p) == Len(s) >= Len(p) /\ SubSeq(s, 1, Len(p)) = p
Contains(s, sub) ==
    \E i \in 1..(Len(s) - Len(sub) + 1) : SubSeq(s, i, i + Len(sub) - 1) = sub
IsWhitespace(c) == c \in {" ", "\t", "\n", "\r"}
ApiPrefix(g) == IF g = <<>> THEN <<"a", "p", "i">> ELSE <<"a", "p", "i", "s">>
\* apiVersion as the data model states it
DocumentedApiVersion(g, v) == IF g = <<>> THEN v ELSE g \o <<"/">> \o v
\* "namespaces/" + ns + "/"
NamespaceSegment(ns) == S_namespaces_slash \o ns \o <<"/">>
\* the documented path format, around a given apiVersion
DocumentedPath(g, av, nsopt, p) ==
    <<"/">> \o ApiPrefix(g) \o <<"/">> \o av \o <<"/">>
        \o (IF nsopt = None THEN <<>> ELSE NamespaceSegment(nsopt[1])) \o p

ReadOps ==
    {"kind", "group", "version", "plural", "api_version", "url_path", "meta", "name",
     "namespace", "resource_version", "uid", "labels", "annotations",
     "owner_references", "finalizers"}

\* C1: url_path returns "/" + ("api" if group is empty, else "apis") + "/" +
\* api_version + "/" + ("namespaces/" + ns + "/" for Some(ns), nothing for
\* None) + plural; for Some(ns), ns = "" included, "namespaces/" + ns + "/"
\* sits right after api_version + "/" and right before plural.
C1_UrlPathFormat ==
    lastOp.op = "url_path" =>
        LET ns == lastOp.arg
            head == <<"/">> \o ApiPrefix(group(ty)) \o <<"/">> \o api_version(ty) \o <<"/">>
            path == ret.val
        IN  /\ ~ret.panic
            /\ path = DocumentedPath(group(ty), api_version(ty), ns, plural(ty))
            /\ ns # None =>
                /\ SubSeq(path, 1, Len(head)) = head
                /\ SubSeq(path, Len(head) + 1, Len(head) + Len(NamespaceSegment(ns[1])))
                       = NamespaceSegment(ns[1])
                /\ SubSeq(path, Len(head) + Len(NamespaceSegment(ns[1])) + 1, Len(path))
                       = plural(ty)

\* url_path(Some("")) of group "apps", version "v1", plural "pods" was called
C1_Witness ==
    /\ lastOp.op = "url_path"
    /\ lastOp.arg = Some(<<>>)
    /\ group(ty) = S_apps
    /\ ret.val = <<"/", "a", "p", "i", "s", "/", "a", "p", "p", "s", "/", "v", "1", "/",
                   "n", "a", "m", "e", "s", "p", "a", "c", "e", "s", "/", "/",
                   "p", "o", "d", "s">>

\* C2: with the default api_version, an empty group gives api_version =
\* version and a path starting "/api/"; a non-empty group gives api_version =
\* group + "/" + version and a path starting "/apis/".
C2_DefaultApiVersion ==
    ty.impl = "dynamic" =>
        /\ lastOp.op = "api_version" =>
            IF group(ty) = <<>>
            THEN ret = Ok(version(ty))
            ELSE ret = Ok(group(ty) \o <<"/">> \o version(ty))
        /\ lastOp.op = "url_path" =>
            IF group(ty) = <<>>
            THEN StartsWith(ret.val, <<"/", "a", "p", "i", "/">> \o version(ty))
            ELSE StartsWith(ret.val, <<"/", "a", "p", "i", "s", "/">>
                                         \o group(ty) \o <<"/">> \o version(ty))

\* api_version of a core-group type with the default api_version was called
C2_Witness ==
    /\ ty.impl = "dynamic"
    /\ group(ty) = <<>>
    /\ lastOp.op = "api_version"
    /\ ret.val = <<"v", "2">>

\* C3: name() returns the stored name iff it is present; absent, it panics
\* with ".metadata.name missing" and returns no default or empty string.
C3_NameOrMissingField ==
    lastOp.op = "name" =>
        /\ ret.panic <=> obj.metadata.name = None
        /\ obj.metadata.name # None => ret = Ok(obj.metadata.name[1])
        /\ obj.metadata.name = None => ret = Panic(".metadata.name missing")

\* name() was called on an object without a name
C3_Witness ==
    /\ lastOp.op = "name"
    /\ obj.metadata.name = None
    /\ ret.panic

\* C4: what is stored through labels_mut, annotations_mut,
\* owner_references_mut, finalizers_mut or meta_mut is exactly what labels,
\* annotations, owner_references, finalizers or meta then return.
C4_MutationVisible ==
    [][/\ lastOp'.op = "labels_mut.insert" =>
            /\ labels(obj') = insert(obj.metadata.labels, lastOp'.arg[1], lastOp'.arg[2])
            /\ meta(obj').labels[lastOp'.arg[1]] = lastOp'.arg[2]
       /\ lastOp'.op = "labels_mut.remove" =>
            /\ labels(obj') = remove(obj.metadata.labels, lastOp'.arg)
            /\ lastOp'.arg \notin DOMAIN meta(obj').labels
       /\ lastOp'.op = "annotations_mut.insert" =>
            annotations(obj')
                = insert(obj.metadata.annotations, lastOp'.arg[1], lastOp'.arg[2])
       /\ lastOp'.op = "owner_references_mut.push" =>
            owner_references(obj') = Append(obj.metadata.owner_references, lastOp'.arg)
       /\ lastOp'.op = "finalizers_mut.push" =>
            finalizers(obj') = Append(obj.metadata.finalizers, lastOp'.arg)
       /\ lastOp'.op = "meta_mut.assign" =>
            /\ meta(obj') = lastOp'.arg
            /\ name(obj') = expect(lastOp'.arg.name, ".metadata.name missing")
      ]_vars

\* labels_mut().insert("k", "v") was called on an object without labels
C4_Witness ==
    /\ lastOp.op = "labels_mut.insert"
    /\ lastOp.arg = <<"k", "v">>
    /\ DOMAIN labels(obj) = {"k"}
    /\ labels(obj)["k"] = "v"
    /\ obj.metadata.annotations = EmptyMap

\* C5: namespace, resource_version and uid return the stored optional value
\* unchanged, labels, annotations, owner_references and finalizers the stored
\* collection; none of them fails, also on an object on which name() fails.
C5_TotalAccessors ==
    /\ ret.panic => lastOp.op = "name"
    /\ lastOp.op = "namespace" =>
        /\ ret = Ok(obj.metadata.namespace)
        /\ ret.val # Some("")
    /\ lastOp.op = "resource_version" =>
        /\ ret = Ok(obj.metadata.resource_version)
        /\ ret.val # Some("")
    /\ lastOp.op = "uid" =>
        /\ ret = Ok(obj.metadata.uid)
        /\ ret.val # Some("")
    /\ lastOp.op = "labels" => ret = Ok(obj.metadata.labels)
    /\ lastOp.op = "annotations" => ret = Ok(obj.metadata.annotations)
    /\ lastOp.op = "owner_references" => ret = Ok(obj.metadata.owner_references)
    /\ lastOp.op = "finalizers" => ret = Ok(obj.metadata.finalizers)

\* namespace() was called on an object with neither name nor namespace
C5_Witness ==
    /\ lastOp.op = "namespace"
    /\ obj.metadata.name = None
    /\ ret = Ok(None)

\* C6 as stated: url_path called with None returns a path that does not
\* contain "namespaces/".
C6_NoNamespacesSubstring ==
    (lastOp.op = "url_path" /\ lastOp.arg = None) =>
        ~Contains(ret.val, S_namespaces_slash)

\* C6 as amended: url_path called with None returns "/" + ("api" | "apis") +
\* "/" + api_version + "/" + plural, nothing between api_version + "/" and
\* plural; "namespaces/" occurs in it only where api_version + "/" + plural
\* itself spells it.
C6_NoNamespaceSegmentInserted ==
    (lastOp.op = "url_path" /\ lastOp.arg = None) =>
        /\ ret.val = <<"/">> \o ApiPrefix(group(ty)) \o <<"/">>
                        \o api_version(ty) \o <<"/">> \o plural(ty)
        /\ Contains(ret.val, S_namespaces_slash) =>
               Contains(api_version(ty) \o <<"/">> \o plural(ty), S_namespaces_slash)

\* url_path(None) of the core-group "namespaces" collection was called
C6_Witness ==
    /\ lastOp.op = "url_path"
    /\ lastOp.arg = None
    /\ ret.val = <<"/", "a", "p", "i", "/", "v", "1", "/",
                   "n", "a", "m", "e", "s", "p", "a", "c", "e", "s">>

C8_AppendKeepsOrder ==
    [][/\ lastOp'.op = "finalizers_mut.push" =>
            LET old == finalizers(obj)
                new == finalizers(obj')
            IN  /\ Len(new) = Len(old) + 1
                /\ new[Len(new)] = lastOp'.arg
                /\ \A i \in 1..Len(old) : new[i] = old[i]
       /\ lastOp'.op = "owner_references_mut.push" =>
            LET old == owner_references(obj)
                new == owner_references(obj')
            IN  /\ Len(new) = Len(old) + 1
                /\ new[Len(new)] = lastOp'.arg
                /\ \A i \in 1..Len(old) : new[i] = old[i]
      ]_vars

\* the same finalizer was pushed twice, after owner references pushed in
\* an order that is not sorted by name
C8_Witness ==
    /\ lastOp.op = "finalizers_mut.push"
    /\ lastOp.arg = "f2"
    /\ finalizers(obj) = <<"f2", "f2">>
    /\ Len(owner_references(obj)) = 2
    /\ owner_references(obj)[1].name = "rs"
    /\ owner_references(obj)[2].name = "dep"

\* C9: for a blanket-implemented type api_version() is API_VERSION, whatever
\* GROUP and VERSION are; url_path puts API_VERSION between the prefix chosen
\* from GROUP and the namespace segment; the result is the documented
\* apiVersion, and the path the documented path, exactly when API_VERSION =
\* (VERSION if GROUP is empty, else GROUP + "/" + VERSION).
C9_StaticApiVersion ==
    ty.impl = "blanket" =>
        LET consistent == ty.API_VERSION = DocumentedApiVersion(ty.GROUP, ty.VERSION) IN
        /\ lastOp.op = "api_version" =>
            /\ ret = Ok(ty.API_VERSION)
            /\ (ret.val = DocumentedApiVersion(ty.GROUP, ty.VERSION)) <=> consistent
        /\ lastOp.op = "url_path" =>
            /\ ret.val = DocumentedPath(ty.GROUP, ty.API_VERSION, lastOp.arg,
                                        ty.URL_PATH_SEGMENT)
            /\ (ret.val = DocumentedPath(ty.GROUP,
                                         DocumentedApiVersion(ty.GROUP, ty.VERSION),
                                         lastOp.arg, ty.URL_PATH_SEGMENT))
                   <=> consistent

\* url_path of a type with GROUP "apps", VERSION "v1", API_VERSION "v2" was called
C9_Witness ==
    /\ ty.impl = "blanket"
    /\ ty.GROUP = S_apps
    /\ ty.VERSION = S_v1
    /\ ty.API_VERSION = S_v2
    /\ lastOp.op = "url_path"
    /\ lastOp.arg = None
    /\ ret.val = <<"/", "a", "p", "i", "s", "/", "v", "2", "/", "p", "o", "d", "s">>

\* C10: a read leaves the object as it was, name() when it panics included;
\* a store through labels_mut, annotations_mut, owner_references_mut or
\* finalizers_mut changes that one collection and nothing else.
OnlyChanged(field) ==
    /\ \A f \in (DOMAIN obj.metadata) \ {field} : obj'.metadata[f] = obj.metadata[f]
    /\ DOMAIN obj'.metadata = DOMAIN obj.metadata
    /\ obj'.spec = obj.spec
C10_Frame ==
    [][/\ lastOp'.op \in ReadOps => obj' = obj
       /\ lastOp'.op \in {"labels_mut.insert", "labels_mut.remove"} => OnlyChanged("labels")
       /\ lastOp'.op = "annotations_mut.insert" => OnlyChanged("annotations")
       /\ lastOp'.op = "owner_references_mut.push" => OnlyChanged("owner_references")
       /\ lastOp'.op = "finalizers_mut.push" => OnlyChanged("finalizers")
      ]_vars

\* labels_mut().insert was called on a named object that holds an
\* annotation, an owner reference and a finalizer
C10_Witness ==
    /\ lastOp.op = "labels_mut.insert"
    /\ obj.metadata.name # None
    /\ labels(obj) # annotations(obj)
    /\ annotations(obj) # EmptyMap
    /\ owner_references(obj) # <<>>
    /\ finalizers(obj) # <<>>

===========================================================================
